---- MODULE Spec2Model ----
(***************************************************************************)
(* The YAML selective merge engine of src/test2.py (class YamlMerger).     *)
(*                                                                         *)
(* Python objects live in a heap: a dict or a list is a cell, a value is   *)
(* a scalar or a reference to a cell, so that in-place assignment          *)
(* (merged[token] = ...), aliasing of subtrees of new_data and             *)
(* copy.deepcopy are modelled by what they do.  A Python str is a          *)
(* sequence of one-character strings, so that str.split('.'), '.'.join     *)
(* and the substring test of `token in new` are computed.                  *)
(***************************************************************************)
EXTENDS Integers, Sequences, FiniteSets, TLC

(***************************************************************************)
(* Strings                                                                 *)
(***************************************************************************)
Star == <<"*">>

RECURSIVE SplitFrom(_, _)
SplitFrom(s, cur) ==
    IF s = <<>> THEN <<cur>>
    ELSE IF Head(s) = "." THEN <<cur>> \o SplitFrom(Tail(s), <<>>)
    ELSE SplitFrom(Tail(s), Append(cur, Head(s)))

\* str.split('.')
split(s) == SplitFrom(s, <<>>)

\* '.'.join(parts)
RECURSIVE join(_)
join(parts) ==
    IF parts = <<>> THEN <<>>
    ELSE IF Len(parts) = 1 THEN parts[1]
    ELSE parts[1] \o <<".">> \o join(Tail(parts))

\* sub in s, for two str
IsSubstring(sub, s) ==
    \E i \in 0..(Len(s) - Len(sub)) :
        \A j \in 1..Len(sub) : s[i + j] = sub[j]

(***************************************************************************)
(* Values and heap cells                                                   *)
(***************************************************************************)
NoneV == [t |-> "null", n |-> 0, s |-> <<>>]
IntV(i) == [t |-> "int", n |-> i, s |-> <<>>]
StrV(str) == [t |-> "str", n |-> 0, s |-> str]
Ref(a) == [t |-> "ref", n |-> a, s |-> <<>>]

EmptyDict == [t |-> "dict", ks |-> <<>>, vs |-> <<>>]
EmptyList == [t |-> "list", ks |-> <<>>, vs |-> <<>>]

\* isinstance(v, dict) / isinstance(v, list)
\* isinstance(v, (dict, list)): a sequence passes for a mapping
IsDict_container(h, v) == v.t = "ref"

IsDict(h, v) == v.t = "ref" /\ h[v.n].t = "dict"
\* isinstance(v, (list, dict)): a mapping passes for a sequence
IsList_container(h, v) == v.t = "ref"

IsList(h, v) == v.t = "ref" /\ h[v.n].t = "list"

\* position of key k in the key list ks, 0 when absent
IndexOf(ks, k) ==
    IF \E i \in 1..Len(ks) : ks[i] = k
    THEN CHOOSE i \in 1..Len(ks) : ks[i] = k
    ELSE 0

\* key in d, d[key], list(d.keys()), for a dict d
HasKey(h, d, k) == IndexOf(h[d.n].ks, k) /= 0
GetItem(h, d, k) == h[d.n].vs[IndexOf(h[d.n].ks, k)]
Keys(h, d) == h[d.n].ks

\* SetItem as d.setdefault(k, v): the value of an existing key is not replaced
SetItem_setdefault(h, d, k, v) ==
    LET c == h[d.n]
    IN  IF IndexOf(c.ks, k) /= 0 THEN h
        ELSE [h EXCEPT ![d.n] = [c EXCEPT !.ks = Append(c.ks, k),
                                          !.vs = Append(c.vs, v)]]

\* SetItem as d = {k: v}: the other keys of the mapping are lost
SetItem_rebuild(h, d, k, v) ==
    [h EXCEPT ![d.n] = [h[d.n] EXCEPT !.ks = <<k>>, !.vs = <<v>>]]

\* d[k] = v in place: an existing key keeps its position, a new key is appended
SetItem(h, d, k, v) ==
    LET c == h[d.n]
        i == IndexOf(c.ks, k)
    IN  IF i /= 0
        THEN [h EXCEPT ![d.n] = [c EXCEPT !.vs = [c.vs EXCEPT ![i] = v]]]
        ELSE [h EXCEPT ![d.n] = [c EXCEPT !.ks = Append(c.ks, k),
                                          !.vs = Append(c.vs, v)]]

\* lst.append(v) in place
ListAppend(h, l, v) ==
    [h EXCEPT ![l.n] = [h[l.n] EXCEPT !.vs = Append(h[l.n].vs, v)]]

\* bool(v): None, False, 0, "", {} and [] are falsy
Truthy(h, v) ==
    CASE v.t = "null" -> FALSE
      [] v.t = "bool" -> v.n = 1
      [] v.t = "int" -> v.n /= 0
      [] v.t = "str" -> v.s /= <<>>
      [] v.t = "ref" -> Len(h[v.n].vs) > 0

(***************************************************************************)
(* Trees: the deep value of a heap value (what == and key order see)       *)
(***************************************************************************)
TNone == [t |-> "null", ks |-> <<>>, vs |-> <<>>, n |-> 0, s |-> <<>>]
TInt(i) == [t |-> "int", ks |-> <<>>, vs |-> <<>>, n |-> i, s |-> <<>>]
TStr(str) == [t |-> "str", ks |-> <<>>, vs |-> <<>>, n |-> 0, s |-> str]
TDict(ks, vs) == [t |-> "dict", ks |-> ks, vs |-> vs, n |-> 0, s |-> <<>>]
TList(vs) == [t |-> "list", ks |-> <<>>, vs |-> vs, n |-> 0, s |-> <<>>]

RECURSIVE TreeOf(_, _)
TreeOf(h, v) ==
    IF v.t = "ref"
    THEN [t |-> h[v.n].t, ks |-> h[v.n].ks,
          vs |-> [i \in 1..Len(h[v.n].vs) |-> TreeOf(h, h[v.n].vs[i])],
          n |-> 0, s |-> <<>>]
    ELSE [t |-> v.t, ks |-> <<>>, vs |-> <<>>, n |-> v.n, s |-> v.s]

\* the result of building a tree in the heap (yaml.safe_load, a literal)
RECURSIVE Alloc(_, _), AllocAll(_, _, _, _)
Alloc(h, tr) ==
    IF tr.t \in {"dict", "list"}
    THEN LET a == Len(h) + 1
             h1 == Append(h, [t |-> tr.t, ks |-> tr.ks, vs |-> <<>>])
         IN  [h |-> AllocAll(h1, a, tr.vs, 1), r |-> Ref(a)]
    ELSE [h |-> h, r |-> [t |-> tr.t, n |-> tr.n, s |-> tr.s]]
AllocAll(h, a, vs, i) ==
    IF i > Len(vs) THEN h
    ELSE LET sub == Alloc(h, vs[i])
         IN  AllocAll(ListAppend(sub.h, Ref(a), sub.r), a, vs, i + 1)

(***************************************************************************)
(* Key order of strings, as sorted() of yaml.dump sees it                  *)
(***************************************************************************)
\* the code point of a character of a key
Ord(c) ==
    CASE c = "*" -> 42
      [] c = "." -> 46
      [] c = "a" -> 97
      [] c = "b" -> 98

\* s < t for strings
RECURSIVE StrLess(_, _)
StrLess(s1, s2) ==
    IF s2 = <<>> THEN FALSE
    ELSE IF s1 = <<>> THEN TRUE
    ELSE IF Head(s1) = Head(s2) THEN StrLess(Tail(s1), Tail(s2))
    ELSE Ord(Head(s1)) < Ord(Head(s2))

\* the positions of ks, ordered by key
RECURSIVE SortedPositions(_, _)
SortedPositions(ks, todo) ==
    IF todo = {} THEN <<>>
    ELSE LET i == CHOOSE i \in todo : \A j \in todo : j = i \/ StrLess(ks[i], ks[j])
         IN  <<i>> \o SortedPositions(ks, todo \ {i})

(***************************************************************************)
(* Copies of object graphs: copy.deepcopy, yaml.dump, yaml.safe_load       *)
(***************************************************************************)
\* the memo of a copy: no object has been copied yet
EmptyMemo == [x \in {} |-> 0]

\* The walk shared by copy.deepcopy (memo keyed by id(x)), the representer of
\* yaml.dump (represented_objects keyed by id(data), an object met again is
\* written as an alias of its anchor) and the constructor of yaml.safe_load
\* (constructed_objects, an alias yields the object of its anchor): every
\* dict and list under v in heap hs is built once in heap hd, and an object
\* reachable at several places is ONE object in the copy.  Scalars and None
\* are not copied.  With sorted, the items of every mapping are visited and
\* stored in the order of their keys (sort_keys=True, the default of dump).
RECURSIVE copy_value(_, _, _, _, _), copy_items(_, _, _, _, _, _, _, _)
copy_value(hs, v, hd, memo, sorted) ==
    IF v.t /= "ref" THEN [h |-> hd, memo |-> memo, r |-> v]
    ELSE IF v.n \in DOMAIN memo
    THEN [h |-> hd, memo |-> memo, r |-> Ref(memo[v.n])]
    ELSE LET a == Len(hd) + 1
             c == hs[v.n]
             ps == IF sorted /\ c.t = "dict"
                   THEN SortedPositions(c.ks, 1..Len(c.ks))
                   ELSE [i \in 1..Len(c.vs) |-> i]
             m1 == [x \in DOMAIN memo \cup {v.n} |->
                       IF x = v.n THEN a ELSE memo[x]]
         IN  copy_items(hs, c, ps, 1,
                        Append(hd, [t |-> c.t, ks |-> <<>>, vs |-> <<>>]),
                        m1, a, sorted)
copy_items(hs, c, ps, i, hd, memo, a, sorted) ==
    IF i > Len(ps) THEN [h |-> hd, memo |-> memo, r |-> Ref(a)]
    ELSE LET sub == copy_value(hs, c.vs[ps[i]], hd, memo, sorted)
             h1 == IF c.t = "dict"
                   THEN SetItem(sub.h, Ref(a), c.ks[ps[i]], sub.r)
                   ELSE ListAppend(sub.h, Ref(a), sub.r)
         IN  copy_items(hs, c, ps, i + 1, h1, sub.memo, a, sorted)

\* deepcopy left out (merged = old_data): the working copy is old itself
deepcopy_alias(h, v) == [h |-> h, r |-> v]

\* copy.deepcopy(v): fresh cells for every dict and list under v, one cell
\* for each object however many places hold it
deepcopy(h, v) ==
    LET c == copy_value(h, v, h, EmptyMemo, FALSE)
    IN  [h |-> c.h, r |-> c.r]

(***************************************************************************)
(* YAML documents: the object graph a text denotes.  A node written once   *)
(* with an anchor and referred to by aliases is one cell of the document.  *)
(***************************************************************************)
\* the document of a text without anchors: a tree, keys in text order
Doc(tr) == Alloc(<<>>, tr)

\* the deep value of the document doc
DocTree(doc) == TreeOf(doc.h, doc.r)

\* yaml.dump(data, f): the document written for the object v
yaml_dump(h, v) ==
    LET c == copy_value(h, v, <<>>, EmptyMemo, TRUE)
    IN  [h |-> c.h, r |-> c.r]

\* yaml.safe_load: the objects built in heap h for the document doc
safe_load(h, doc) ==
    LET c == copy_value(doc.h, doc.r, h, EmptyMemo, FALSE)
    IN  [h |-> c.h, r |-> c.r]

(***************************************************************************)
(* YamlMerger.get_nested_value, YamlMerger.create_dict_with_field          *)
(***************************************************************************)
RECURSIVE get_nested_loop(_, _, _, _)
get_nested_loop(h, current, keys, default) ==
    IF keys = <<>> THEN current
    ELSE IF IsDict(h, current) /\ HasKey(h, current, Head(keys))
    THEN get_nested_loop(h, GetItem(h, current, Head(keys)), Tail(keys), default)
    ELSE default

get_nested_value(h, d, field_str, default) ==
    get_nested_loop(h, d, split(field_str), default)

RECURSIVE create_dict_loop(_, _, _, _)
create_dict_loop(h, current, keys, value) ==
    IF Len(keys) = 1 THEN SetItem(h, current, keys[1], value)
    ELSE LET a == Len(h) + 1
             h1 == Append(h, EmptyDict)
         IN  create_dict_loop(SetItem(h1, current, keys[1], Ref(a)),
                              Ref(a), Tail(keys), value)

create_dict_with_field(h, field_str, value) ==
    LET a == Len(h) + 1
    IN  [h |-> create_dict_loop(Append(h, EmptyDict), Ref(a), split(field_str), value),
         r |-> Ref(a)]

(***************************************************************************)
(* YamlMerger.merge_pattern                                                *)
(***************************************************************************)
\* the outcome of a call: the heap, the value returned or the TypeError, and
\* d, the number of merge_pattern calls nested inside it at the deepest
Return(h, v) == [h |-> h, r |-> v, exc |-> FALSE, d |-> 0]
Raise(h) == [h |-> h, r |-> NoneV, exc |-> TRUE, d |-> 0]
\* res is the outcome of a call that made the recursive call sub
Nested(sub, res) ==
    [res EXCEPT !.d = IF sub.d + 1 > res.d THEN sub.d + 1 ELSE res.d]

\* Contains without the membership test: new[token] of a missing key raises
Contains_unguarded(h, new, token) ==
    CASE IsDict(h, new) -> IF HasKey(h, new, token) THEN "yes" ELSE "raise"
      [] IsList(h, new) ->
            IF \E i \in 1..Len(h[new.n].vs) : h[new.n].vs[i] = StrV(token)
            THEN "yes" ELSE "no"
      [] new.t = "str" -> IF IsSubstring(token, new.s) THEN "yes" ELSE "no"
      [] OTHER -> "raise"

\* `token in new`: "yes", "no", or "raise" (TypeError: not iterable)
Contains(h, new, token) ==
    CASE IsDict(h, new) -> IF HasKey(h, new, token) THEN "yes" ELSE "no"
      [] IsList(h, new) ->
            IF \E i \in 1..Len(h[new.n].vs) : h[new.n].vs[i] = StrV(token)
            THEN "yes" ELSE "no"
      [] new.t = "str" -> IF IsSubstring(token, new.s) THEN "yes" ELSE "no"
      [] OTHER -> "raise"

\* the loop runs over new.keys() only: no key is taken from merged alone
UnionKeys_only_new(union_keys, new_keys) == new_keys

\* UnionKeys starting from the keys of new: new's keys first, then merged's
UnionKeys_new_first(union_keys, new_keys) ==
    new_keys \o SelectSeq(union_keys,
                          LAMBDA k : ~\E i \in 1..Len(new_keys) : new_keys[i] = k)

\* union_keys: the keys of merged, then the keys of new not yet listed
RECURSIVE UnionKeys(_, _)
UnionKeys(union_keys, new_keys) ==
    IF new_keys = <<>> THEN union_keys
    ELSE IF \E i \in 1..Len(union_keys) : union_keys[i] = Head(new_keys)
    THEN UnionKeys(union_keys, Tail(new_keys))
    ELSE UnionKeys(Append(union_keys, Head(new_keys)), Tail(new_keys))

\* the shorter length: the loop stops at the end of the shorter sequence
Max_min(a, b) == IF a <= b THEN a ELSE b

Max(a, b) == IF a >= b THEN a ELSE b

RECURSIVE merge_pattern(_, _, _, _), merge_dict_loop(_, _, _, _, _, _, _),
          merge_list_loop(_, _, _, _, _, _)
merge_pattern(h, merged, new, tokens) ==
    IF tokens = <<>> THEN Return(h, new)
    ELSE
    LET token == Head(tokens)
        rest == Tail(tokens)
    IN
    IF token /= Star
    THEN IF IsDict(h, merged)
         THEN LET c == Contains(h, new, token)
              IN
              IF c = "raise" THEN Raise(h)
              ELSE IF c = "no" THEN Return(h, merged)
              ELSE IF rest /= <<>>
              THEN \* merged.get(token, {}) is evaluated before new[token]
                   LET present == HasKey(h, merged, token)
                       h1 == IF present THEN h ELSE Append(h, EmptyDict)
                       child == IF present THEN GetItem(h, merged, token)
                                ELSE Ref(Len(h) + 1)
                   IN  IF ~IsDict(h1, new) THEN Raise(h1)
                       ELSE LET sub == merge_pattern(h1, child, GetItem(h1, new, token), rest)
                            IN  Nested(sub,
                                  IF sub.exc THEN Raise(sub.h)
                                  ELSE Return(SetItem(sub.h, merged, token, sub.r),
                                              merged))
              ELSE IF ~IsDict(h, new) THEN Raise(h)
                   ELSE Return(SetItem(h, merged, token, GetItem(h, new, token)), merged)
         ELSE Return(h, new)
    ELSE IF IsDict(h, merged) /\ IsDict(h, new)
         THEN LET union_keys == UnionKeys(Keys(h, merged), Keys(h, new))
                  a == Len(h) + 1
              IN  merge_dict_loop(Append(h, EmptyDict), merged, new, rest,
                                  union_keys, 1, Ref(a))
         ELSE IF IsList(h, merged) /\ IsList(h, new)
         THEN LET a == Len(h) + 1
              IN  merge_list_loop(Append(h, EmptyList), merged, new, rest, 1, Ref(a))
         ELSE Return(h, new)

\* the loop of the wildcard branch, with the recursive call made on the
\* tokens of the call itself (wildcard included) instead of the rest
merge_dict_loop_same_tokens(h, merged, new, rest, union_keys, i, new_merged) ==
    IF i > Len(union_keys) THEN Return(h, new_merged)
    ELSE
    LET key == union_keys[i]
    IN
    IF HasKey(h, merged, key) /\ HasKey(h, new, key)
    THEN LET sub == merge_pattern(h, GetItem(h, merged, key), GetItem(h, new, key),
                                  <<Star>> \o rest)
         IN  Nested(sub,
               IF sub.exc THEN Raise(sub.h)
               ELSE merge_dict_loop(SetItem(sub.h, new_merged, key, sub.r),
                                    merged, new, rest, union_keys, i + 1,
                                    new_merged))
    ELSE IF HasKey(h, merged, key)
    THEN merge_dict_loop(SetItem(h, new_merged, key, GetItem(h, merged, key)),
                         merged, new, rest, union_keys, i + 1, new_merged)
    ELSE IF rest = <<>>
    THEN merge_dict_loop(SetItem(h, new_merged, key, GetItem(h, new, key)),
                         merged, new, rest, union_keys, i + 1, new_merged)
    ELSE LET field_str == key \o <<".">> \o join(rest)
             value == get_nested_value(h, new, field_str, NoneV)
         IN  IF Truthy(h, value)
             THEN LET made == create_dict_with_field(h, join(rest), value)
                  IN  merge_dict_loop(SetItem(made.h, new_merged, key, made.r),
                                      merged, new, rest, union_keys, i + 1, new_merged)
             ELSE merge_dict_loop(h, merged, new, rest, union_keys, i + 1, new_merged)

\* for key in union_keys: ...   (lines 118-131)
merge_dict_loop(h, merged, new, rest, union_keys, i, new_merged) ==
    IF i > Len(union_keys) THEN Return(h, new_merged)
    ELSE
    LET key == union_keys[i]
    IN
    IF HasKey(h, merged, key) /\ HasKey(h, new, key)
    THEN LET sub == merge_pattern(h, GetItem(h, merged, key), GetItem(h, new, key), rest)
         IN  Nested(sub,
               IF sub.exc THEN Raise(sub.h)
               ELSE merge_dict_loop(SetItem(sub.h, new_merged, key, sub.r),
                                    merged, new, rest, union_keys, i + 1,
                                    new_merged))
    ELSE IF HasKey(h, merged, key)
    THEN merge_dict_loop(SetItem(h, new_merged, key, GetItem(h, merged, key)),
                         merged, new, rest, union_keys, i + 1, new_merged)
    ELSE IF rest = <<>>
    THEN merge_dict_loop(SetItem(h, new_merged, key, GetItem(h, new, key)),
                         merged, new, rest, union_keys, i + 1, new_merged)
    ELSE LET field_str == key \o <<".">> \o join(rest)
             value == get_nested_value(h, new, field_str, NoneV)
         IN  IF Truthy(h, value)
             THEN LET made == create_dict_with_field(h, join(rest), value)
                  IN  merge_dict_loop(SetItem(made.h, new_merged, key, made.r),
                                      merged, new, rest, union_keys, i + 1, new_merged)
             ELSE merge_dict_loop(h, merged, new, rest, union_keys, i + 1, new_merged)

\* for i in range(max(len(merged), len(new))): ...   (lines 134-141)
merge_list_loop(h, merged, new, rest, i, merged_list) ==
    LET lm == Len(h[merged.n].vs)
        ln == Len(h[new.n].vs)
    IN
    IF i > Max(lm, ln) THEN Return(h, merged_list)
    ELSE IF i <= lm /\ i <= ln
    THEN LET sub == merge_pattern(h, h[merged.n].vs[i], h[new.n].vs[i], rest)
         IN  Nested(sub,
               IF sub.exc THEN Raise(sub.h)
               ELSE merge_list_loop(ListAppend(sub.h, merged_list, sub.r),
                                    merged, new, rest, i + 1, merged_list))
    ELSE IF i <= lm
    THEN merge_list_loop(ListAppend(h, merged_list, h[merged.n].vs[i]),
                         merged, new, rest, i + 1, merged_list)
    ELSE merge_list_loop(ListAppend(h, merged_list, h[new.n].vs[i]),
                         merged, new, rest, i + 1, merged_list)

(***************************************************************************)
(* Inputs: the documents and the merge keys the merger is run on           *)
(***************************************************************************)
MaxPatterns == 2
MaxCalls == 2

A == <<"a">>
B == <<"b">>
AB == <<"a", ".", "b">>

\* the subtrees the old document holds under a top-level key
OldSub ==
    {TInt(5), TList(<<TInt(5)>>),
     TDict(<<A, B>>, <<TInt(5), TInt(5)>>),
     TDict(<<A>>, <<TDict(<<A, B>>, <<TInt(5), TInt(5)>>)>>)}

OldTrees ==
    {TDict(<<>>, <<>>), TDict(<<B>>, <<TInt(5)>>)}
    \cup {TDict(<<A>>, <<v>>) : v \in OldSub}
    \cup {TDict(<<B, A>>, <<TInt(5), TDict(<<A, B>>, <<TInt(5), TInt(5)>>)>>)}

\* the subtrees the new document holds under a top-level key
NewSub ==
    {TNone, TStr(B), TList(<<TInt(7)>>),
     TDict(<<A>>, <<TInt(7)>>), TDict(<<B>>, <<TInt(7)>>),
     TDict(<<B, A>>, <<TInt(7), TInt(7)>>)}

NewTrees ==
    {TDict(<<A>>, <<v>>) : v \in NewSub}
    \cup {TDict(<<B>>, <<TInt(7)>>)}
    \cup {TDict(<<A, B>>, <<v, TInt(7)>>) : v \in {TNone, TDict(<<B>>, <<TInt(7)>>)}}
    \cup {TDict(<<AB, A>>, <<TDict(<<B>>, <<TInt(7)>>), TDict(<<B>>, <<TInt(7)>>)>>),
          TDict(<<AB, A>>, <<TDict(<<B>>, <<TNone>>),
                             TDict(<<B>>, <<TDict(<<B>>, <<TInt(7)>>)>>)>>)}

Patterns ==
    {A, Star, <<"a", ".", "b">>, <<"*", ".", "b">>, <<"*", ".", "*">>,
     <<"a", ".", "*", ".", "b">>}

PatternLists ==
    UNION {[1..n -> Patterns] : n \in 1..MaxPatterns}

(***************************************************************************)
(* YamlMerger.merge_yaml, one action per line of its body                  *)
(***************************************************************************)
\* heap: the dict and list objects; old_data, new_data, merged: the arguments
\* and the local of merge_yaml; merge_keys: self.merge_keys; idx: the position
\* of the for loop; pc: "call", "loop", "returned" or "raised" (TypeError);
\* calls: the number of the running call.  History: old_before, new_before
\* are the deep values of the arguments when the call started, merged_before
\* the deep value of merged before the pattern applied last, results the deep
\* values returned so far, depth the deepest nesting of merge_pattern calls
\* inside the call made for the pattern applied last.
VARIABLES heap, old_data, new_data, merge_keys, merged, idx, pc, calls,
          old_before, new_before, merged_before, results, depth

merge_vars == <<heap, old_data, new_data, merge_keys, merged, idx, pc, calls,
                old_before, new_before, merged_before, results, depth>>

\* write_yaml_to_file: file is the YAML file at file_path ([exists, data],
\* data the document it holds), new_doc the tree yaml_string denotes,
\* returned the value the last call that returned gave back, file_before
\* the file when the last call started, wpc "idle", "running" (the call is
\* inside merge_yaml, or between its return and line 188), "returned" or
\* "raised", writes the number of calls begun.
VARIABLES file, new_doc, returned, file_before, wpc, writes

file_vars == <<file, new_doc, returned, file_before, wpc, writes>>

\* build_flat_columns: its arguments, and unique_cols once cols_pc is "returned"
VARIABLES header_rows, drop_repeated, unique_cols, cols_pc

cols_vars == <<header_rows, drop_repeated, unique_cols, cols_pc>>

\* last_data_row_in_span: its arguments, and the row returned (last_seen)
\* once rows_pc is "returned"
VARIABLES grid, start_row, col_span, max_blank_streak, last_seen, rows_pc

rows_vars == <<grid, start_row, col_span, max_blank_streak, last_seen, rows_pc>>

vars == <<merge_vars, file_vars, cols_vars, rows_vars>>

\* no call of write_yaml_to_file is under way
FileIdle ==
    /\ file = [exists |-> FALSE, data |-> Doc(TNone)]
    /\ new_doc = TNone
    /\ returned = TNone
    /\ file_before = [exists |-> FALSE, data |-> Doc(TNone)]
    /\ wpc = "idle"
    /\ writes = 0

\* no call of build_flat_columns is under way
ColsIdle ==
    /\ header_rows = <<>>
    /\ drop_repeated = TRUE
    /\ unique_cols = <<>>
    /\ cols_pc = "idle"

\* no call of last_data_row_in_span is under way
RowsIdle ==
    /\ grid = <<>>
    /\ start_row = 1
    /\ col_span = <<1, 1>>
    /\ max_blank_streak = 1
    /\ last_seen = 0
    /\ rows_pc = "idle"

\* no call of merge_yaml is under way
MergeIdle ==
    /\ heap = <<>>
    /\ old_data = NoneV
    /\ new_data = NoneV
    /\ merge_keys = <<>>
    /\ merged = NoneV
    /\ idx = 0
    /\ pc = "idle"
    /\ calls = 0
    /\ old_before = TNone
    /\ new_before = TNone
    /\ merged_before = TNone
    /\ results = <<>>
    /\ depth = 0

\* merge_yaml is entered with old tree o, new tree nw and merge keys ps, from
\* the first call of write_yaml_to_file (line 185): the file holds o, the
\* text yaml_string denotes nw, and nothing has been returned yet
Start(o, nw, ps) ==
    LET ao == Alloc(<<>>, o)
        an == Alloc(ao.h, nw)
    IN  /\ heap = an.h
        /\ old_data = ao.r
        /\ new_data = an.r
        /\ merge_keys = ps
        /\ merged = NoneV
        /\ idx = 0
        /\ pc = "call"
        /\ calls = 1
        /\ old_before = o
        /\ new_before = nw
        /\ merged_before = TNone
        /\ results = <<>>
        /\ depth = 0
        /\ file = [exists |-> TRUE, data |-> Doc(o)]
        /\ new_doc = nw
        /\ returned = TNone
        /\ file_before = [exists |-> TRUE, data |-> Doc(o)]
        /\ wpc = "running"
        /\ writes = 1
        /\ ColsIdle /\ RowsIdle

Init ==
    \E o \in OldTrees, nw \in NewTrees, ps \in PatternLists : Start(o, nw, ps)

\* line 161: merged = copy.deepcopy(old_data)
merge_yaml_copy ==
    /\ pc = "call"
    /\ LET c == deepcopy(heap, old_data)
       IN  /\ heap' = c.h
           /\ merged' = c.r
    /\ idx' = 1
    /\ pc' = "loop"
    /\ old_before' = TreeOf(heap, old_data)
    /\ new_before' = TreeOf(heap, new_data)
    /\ merged_before' = TreeOf(heap, old_data)
    /\ UNCHANGED <<old_data, new_data, merge_keys, calls, results, depth>>
    /\ UNCHANGED <<file_vars, cols_vars, rows_vars>>

\* lines 162-164: one iteration of `for pattern in self.merge_keys`; a
\* TypeError leaves merge_yaml and write_yaml_to_file (line 185), the file
\* is not opened for writing
merge_yaml_pattern ==
    /\ pc = "loop"
    /\ idx <= Len(merge_keys)
    /\ LET tokens == split(merge_keys[idx])
           m == merge_pattern(heap, merged, new_data, tokens)
       IN  /\ heap' = m.h
           /\ merged' = IF m.exc THEN merged ELSE m.r
           /\ pc' = IF m.exc THEN "raised" ELSE "loop"
           /\ wpc' = IF m.exc THEN "raised" ELSE wpc
           /\ depth' = m.d
    /\ idx' = idx + 1
    /\ merged_before' = TreeOf(heap, merged)
    /\ UNCHANGED <<old_data, new_data, merge_keys, calls, old_before,
                   new_before, results>>
    /\ UNCHANGED <<file, new_doc, returned, file_before, writes>>
    /\ UNCHANGED <<cols_vars, rows_vars>>

\* line 165: return merged
merge_yaml_return ==
    /\ pc = "loop"
    /\ idx > Len(merge_keys)
    /\ pc' = "returned"
    /\ results' = Append(results, TreeOf(heap, merged))
    /\ UNCHANGED <<heap, old_data, new_data, merge_keys, merged, idx, calls,
                   old_before, new_before, merged_before, depth>>
    /\ UNCHANGED <<file_vars, cols_vars, rows_vars>>

\* The result is merged once more with the same yaml_string: the call of
\* write_yaml_to_file whose merge returned writes yaml.dump(merged_data)
\* into the file and returns merged_data (lines 188-190); the next call
\* parses yaml_string anew (line 181), finds the file (line 182), reads it
\* back (line 184) and enters merge_yaml (line 185).  The objects of the
\* call before are out of reach of the new call.
merge_yaml_again ==
    /\ pc = "returned"
    /\ calls < MaxCalls
    /\ LET stored == yaml_dump(heap, merged)
           nd == safe_load(<<>>, Doc(new_doc))
           od == safe_load(nd.h, stored)
       IN  /\ file' = [exists |-> TRUE, data |-> stored]
           /\ file_before' = [exists |-> TRUE, data |-> stored]
           /\ heap' = od.h
           /\ new_data' = nd.r
           /\ old_data' = od.r
    /\ returned' = TreeOf(heap, merged)
    /\ wpc' = "running"
    /\ writes' = writes + 1
    /\ merged' = NoneV
    /\ calls' = calls + 1
    /\ pc' = "call"
    /\ idx' = 0
    /\ UNCHANGED <<merge_keys, old_before, new_before, merged_before,
                   results, depth, new_doc>>
    /\ UNCHANGED <<cols_vars, rows_vars>>

Next ==
    \/ merge_yaml_copy
    \/ merge_yaml_pattern
    \/ merge_yaml_return
    \/ merge_yaml_again

Spec == Init /\ [][Next]_vars

(***************************************************************************)
(* merge_yaml run on documents that hold sequences                         *)
(***************************************************************************)
\* the sequences of the old document
OldSeqs ==
    {TList(<<TInt(1), TInt(2), TInt(3)>>), TList(<<TInt(5)>>), TList(<<>>),
     TList(<<TDict(<<A, B>>, <<TInt(5), TInt(5)>>), TInt(5)>>),
     TList(<<TList(<<TInt(5), TInt(5)>>)>>)}

\* the sequences of the new document
NewSeqs ==
    {TList(<<TInt(9), TInt(9)>>), TList(<<>>),
     TList(<<TDict(<<B>>, <<TInt(7)>>), TInt(7), TInt(7)>>),
     TList(<<TList(<<TInt(7)>>), TInt(7)>>)}

SeqOldTrees ==
    OldSeqs \cup {TDict(<<A>>, <<v>>) : v \in OldSeqs \cup {TInt(5)}}
SeqNewTrees ==
    NewSeqs \cup {TDict(<<A>>, <<v>>) :
                      v \in NewSeqs \cup {TNone, TDict(<<B>>, <<TInt(7)>>)}}

SeqPatterns ==
    {Star, <<"a", ".", "b">>, <<"a", ".", "*">>, <<"*", ".", "b">>,
     <<"a", ".", "*", ".", "b">>}

SeqPatternLists ==
    UNION {[1..n -> SeqPatterns] : n \in 1..MaxPatterns}

InitSeq ==
    \E o \in SeqOldTrees, nw \in SeqNewTrees, ps \in SeqPatternLists :
        Start(o, nw, ps)

SpecSeq == InitSeq /\ [][Next]_vars

(***************************************************************************)
(* merge_yaml run on documents whose keys hold a dot                       *)
(***************************************************************************)
DotOldTrees ==
    {TDict(<<>>, <<>>),
     TDict(<<A>>, <<TDict(<<B>>, <<TInt(5)>>)>>),
     TDict(<<AB>>, <<TDict(<<B>>, <<TDict(<<B>>, <<TInt(5)>>)>>)>>)}

DotNewTrees ==
    {TDict(<<AB, A>>,
           <<TDict(<<B>>, <<TDict(<<A>>, <<TInt(7)>>)>>),
             TDict(<<B>>, <<TDict(<<B>>, <<TDict(<<B>>, <<TInt(7)>>)>>)>>)>>),
     TDict(<<AB, A>>, <<TDict(<<B>>, <<TInt(7)>>), TDict(<<B>>, <<TInt(7)>>)>>),
     TDict(<<A>>, <<TDict(<<B>>, <<TDict(<<B>>, <<TInt(7)>>)>>)>>)}

DotPatterns ==
    {Star, <<"a", ".", "b">>, <<"*", ".", "b">>, <<"*", ".", "b", ".", "a">>}

DotPatternLists ==
    UNION {[1..n -> DotPatterns] : n \in 1..MaxPatterns}

InitDot ==
    \E o \in DotOldTrees, nw \in DotNewTrees, ps \in DotPatternLists :
        Start(o, nw, ps)

SpecDot == InitDot /\ [][Next]_vars

\* a step of a call under way, as pc and idx show it: the copy and each
\* iteration move idx on by one, the return and the TypeError set pc
Progress ==
    /\ pc \in {"call", "loop"}
    /\ pc' \in {"loop", "returned", "raised"}
    /\ idx' \in {idx, idx + 1}

\* a call of merge_yaml that has started runs on, line after line, until it
\* returns or raises; whether the caller calls again is up to the caller
FairSpecDot == SpecDot /\ WF_<<pc, idx>>(Progress)

(***************************************************************************)
(* YamlMerger.merge_yaml as the function write_yaml_to_file calls          *)
(***************************************************************************)
\* lines 162-165: the for loop from position i on, and the return
RECURSIVE merge_yaml_loop(_, _, _, _, _)
merge_yaml_loop(h, merged_data, new, keys, i) ==
    IF i > Len(keys) THEN Return(h, merged_data)
    ELSE LET m == merge_pattern(h, merged_data, new, split(keys[i]))
         IN  IF m.exc THEN Raise(m.h)
             ELSE merge_yaml_loop(m.h, m.r, new, keys, i + 1)

merge_yaml(h, old, new, keys) ==
    LET c == deepcopy(h, old)
    IN  merge_yaml_loop(c.h, c.r, new, keys, 1)

(***************************************************************************)
(* YamlMerger.write_yaml_to_file, called again and again on one path       *)
(***************************************************************************)
MaxWrites == 2

\* the documents yaml_string holds
FileDocs ==
    {TDict(<<A>>, <<TDict(<<B>>, <<TInt(7)>>)>>),
     TDict(<<B, A>>, <<TInt(7), TDict(<<A>>, <<TInt(7)>>)>>),
     TDict(<<A>>, <<TNone>>),
     TDict(<<B>>, <<TDict(<<A>>, <<TInt(7)>>)>>)}

\* the file before the first call: missing, empty, or holding a document
FirstFiles ==
    {[exists |-> FALSE, data |-> Doc(TNone)],
     [exists |-> TRUE, data |-> Doc(TNone)],
     [exists |-> TRUE,
      data |-> Doc(TDict(<<B, A>>,
                         <<TInt(5), TDict(<<A, B>>, <<TInt(5), TInt(5)>>)>>))]}

FilePatterns == {Star, B, <<"a", ".", "b">>, <<"*", ".", "b">>}

FilePatternLists ==
    UNION {[1..n -> FilePatterns] : n \in 1..MaxPatterns}

InitFile ==
    \E f \in FirstFiles, ps \in FilePatternLists :
        /\ file = f
        /\ new_doc = TNone
        /\ returned = TNone
        /\ file_before = f
        /\ wpc = "idle"
        /\ writes = 0
        /\ heap = <<>>
        /\ old_data = NoneV
        /\ new_data = NoneV
        /\ merge_keys = ps
        /\ merged = NoneV
        /\ idx = 0
        /\ pc = "idle"
        /\ calls = 0
        /\ old_before = TNone
        /\ new_before = TNone
        /\ merged_before = TNone
        /\ results = <<>>
        /\ depth = 0
        /\ ColsIdle /\ RowsIdle

\* the file is written with the new data whether or not it exists
write_yaml_to_file_overwrite(doc) ==
    /\ writes < MaxWrites
    /\ LET nd == safe_load(<<>>, Doc(doc))
       IN  /\ file' = [exists |-> TRUE, data |-> yaml_dump(nd.h, nd.r)]
           /\ returned' = TreeOf(nd.h, nd.r)
           /\ wpc' = "returned"
    /\ file_before' = file
    /\ new_doc' = doc
    /\ writes' = writes + 1
    /\ UNCHANGED <<merge_vars, cols_vars, rows_vars>>

\* lines 181-190: one call write_yaml_to_file(doc, file_path)
write_yaml_to_file(doc) ==
    /\ writes < MaxWrites
    /\ LET nd == safe_load(<<>>, Doc(doc))
       IN  IF file.exists
           THEN LET od == safe_load(nd.h, file.data)
                    m == merge_yaml(od.h, od.r, nd.r, merge_keys)
                IN  IF m.exc
                    THEN \* the TypeError leaves before the file is opened for writing
                         /\ file' = file
                         /\ returned' = TNone
                         /\ wpc' = "raised"
                    ELSE /\ file' = [exists |-> TRUE, data |-> yaml_dump(m.h, m.r)]
                         /\ returned' = TreeOf(m.h, m.r)
                         /\ wpc' = "returned"
           ELSE /\ file' = [exists |-> TRUE, data |-> yaml_dump(nd.h, nd.r)]
                /\ returned' = TreeOf(nd.h, nd.r)
                /\ wpc' = "returned"
    /\ file_before' = file
    /\ new_doc' = doc
    /\ writes' = writes + 1
    /\ UNCHANGED <<merge_vars, cols_vars, rows_vars>>

NextFile == \E doc \in FileDocs : write_yaml_to_file(doc)

SpecFile == InitFile /\ [][NextFile]_vars

(***************************************************************************)
(* src/test1.py: build_flat_columns                                        *)
(***************************************************************************)
\* str(n) for a natural number n
Digit(n) ==
    CASE n = 0 -> "0" [] n = 1 -> "1" [] n = 2 -> "2" [] n = 3 -> "3"
      [] n = 4 -> "4" [] n = 5 -> "5" [] n = 6 -> "6" [] n = 7 -> "7"
      [] n = 8 -> "8" [] n = 9 -> "9"

RECURSIVE IntStr(_)
IntStr(n) ==
    IF n < 10 THEN <<Digit(n)>>
    ELSE Append(IntStr(n \div 10), Digit(n % 10))

\* str(v) of a cell value
Str(v) == IF v.t = "int" THEN IntStr(v.n) ELSE v.s

\* str.strip(): the blanks at both ends are dropped
RECURSIVE lstrip(_), rstrip(_)
lstrip(str) ==
    IF str /= <<>> /\ Head(str) = " " THEN lstrip(Tail(str)) ELSE str
rstrip(str) ==
    IF str /= <<>> /\ str[Len(str)] = " "
    THEN rstrip(SubSeq(str, 1, Len(str) - 1)) ELSE str
strip(str) == rstrip(lstrip(str))

\* sep.join(parts)
RECURSIVE sep_join(_, _)
sep_join(sep, parts) ==
    IF parts = <<>> THEN <<>>
    ELSE IF Len(parts) = 1 THEN parts[1]
    ELSE parts[1] \o sep \o sep_join(sep, Tail(parts))

\* _ffill: the loop from position i on, last the most recent non-None value
RECURSIVE ffill_loop(_, _, _, _)
ffill_loop(values, i, last, out) ==
    IF i > Len(values) THEN out
    ELSE IF values[i] = NoneV
    THEN ffill_loop(values, i + 1, last, Append(out, last))
    ELSE ffill_loop(values, i + 1, values[i], Append(out, values[i]))

ffill(values) == ffill_loop(values, 1, NoneV, <<>>)

\* max(len(r) for r in header_rows)
RECURSIVE MaxLen(_)
MaxLen(rows) ==
    IF Len(rows) = 1 THEN Len(rows[1])
    ELSE LET m == MaxLen(Tail(rows))
         IN  IF Len(rows[1]) >= m THEN Len(rows[1]) ELSE m

\* list(r) + [None] * (width - len(r))
Pad(r, width) == r \o [k \in 1..(width - Len(r)) |-> NoneV]

\* lines 103-113: the parts of column j (0-based), from header row i on
RECURSIVE column_parts(_, _, _, _, _, _)
column_parts(norm, j, i, prev, parts, drop) ==
    IF i > Len(norm) THEN parts
    ELSE LET v == norm[i][j + 1]
             str == strip(Str(v))
         IN  IF v = NoneV THEN column_parts(norm, j, i + 1, prev, parts, drop)
             ELSE IF str = <<>> THEN column_parts(norm, j, i + 1, prev, parts, drop)
             ELSE IF drop /\ prev = StrV(str)
             THEN column_parts(norm, j, i + 1, prev, parts, drop)
             ELSE column_parts(norm, j, i + 1, StrV(str), Append(parts, str), drop)

\* lines 117-122: the loop over cols from position i on; seen maps a name to
\* the number of times it came up
RECURSIVE unique_loop(_, _, _, _)
unique_loop(cols, i, seen, out) ==
    IF i > Len(cols) THEN out
    ELSE LET c == cols[i]
             n == IF c \in DOMAIN seen THEN seen[c] ELSE 0
             name == IF n = 0 THEN c
                     ELSE c \o <<" ", "(">> \o IntStr(n + 1) \o <<")">>
             seen1 == [x \in DOMAIN seen \cup {c} |->
                          IF x = c THEN n + 1 ELSE seen[x]]
         IN  unique_loop(cols, i + 1, seen1, Append(out, name))

build_flat_columns(rows, sep, drop) ==
    IF rows = <<>> THEN <<>>
    ELSE LET width == MaxLen(rows)
             norm == [i \in 1..Len(rows) |-> ffill(Pad(rows[i], width))]
             cols == [k \in 1..width |->
                        LET parts == column_parts(norm, k - 1, 1, NoneV, <<>>, drop)
                        IN  IF parts /= <<>> THEN sep_join(sep, parts)
                            ELSE <<"c", "o", "l", "_">> \o IntStr(k - 1)]
         IN  unique_loop(cols, 1, <<>>, <<>>)

\* the default of sep
DefaultSep == <<" ", "|", " ">>

MaxHeaderRows == 2
MaxWidth == 3

\* the values of a header cell: None, "a", "a (2)", " "
HeaderCells ==
    {NoneV, StrV(<<"a">>), StrV(<<"a", " ", "(", "2", ")">>), StrV(<<" ">>)}

HeaderRow == UNION {[1..w -> HeaderCells] : w \in 0..MaxWidth}

HeaderRowLists == UNION {[1..n -> HeaderRow] : n \in 0..MaxHeaderRows}

InitCols ==
    \E rows \in HeaderRowLists, drop \in BOOLEAN :
        /\ header_rows = rows
        /\ drop_repeated = drop
        /\ unique_cols = <<>>
        /\ cols_pc = "call"
        /\ MergeIdle /\ FileIdle /\ RowsIdle

\* the call build_flat_columns(header_rows, drop_repeated=drop_repeated)
build_flat_columns_call ==
    /\ cols_pc = "call"
    /\ unique_cols' = build_flat_columns(header_rows, DefaultSep, drop_repeated)
    /\ cols_pc' = "returned"
    /\ UNCHANGED <<header_rows, drop_repeated>>
    /\ UNCHANGED <<merge_vars, file_vars, rows_vars>>

NextCols == build_flat_columns_call

SpecCols == InitCols /\ [][NextCols]_vars

(***************************************************************************)
(* src/test1.py: last_data_row_in_span                                     *)
(***************************************************************************)
\* any(v is not None for v in row[left_col - 1 : right_col])
has_data(row, left_col, right_col) ==
    \E p \in left_col..right_col : p <= Len(row) /\ row[p] /= NoneV

\* lines 152-162: the for loop from row r on
RECURSIVE scan_rows(_, _, _, _, _, _, _)
scan_rows(g, r, left_col, right_col, streak, blank_streak, seen_row) ==
    IF r > Len(g) THEN seen_row
    ELSE IF has_data(g[r], left_col, right_col)
    THEN scan_rows(g, r + 1, left_col, right_col, streak, 0, r)
    ELSE IF blank_streak + 1 >= streak THEN seen_row
    ELSE scan_rows(g, r + 1, left_col, right_col, streak, blank_streak + 1, seen_row)

last_data_row_in_span(g, start, span, streak) ==
    scan_rows(g, start, span[1], span[2], streak, 0, start)

MaxGridRows == 3
MaxGridCols == 2
MaxStreak == 2

GridCells == {NoneV, IntV(1)}

Grids ==
    UNION {[1..n -> [1..MaxGridCols -> GridCells]] : n \in 1..MaxGridRows}

\* the spans (left_col, right_col), 1-based and inclusive
ColSpans ==
    {span \in (1..MaxGridCols) \X (1..MaxGridCols) : span[1] <= span[2]}

InitRows ==
    \E g \in Grids, span \in ColSpans, streak \in 1..MaxStreak :
        \E start \in 1..Len(g) :
            /\ grid = g
            /\ start_row = start
            /\ col_span = span
            /\ max_blank_streak = streak
            /\ last_seen = 0
            /\ rows_pc = "call"
            /\ MergeIdle /\ FileIdle /\ ColsIdle

\* the call last_data_row_in_span(grid, start_row, col_span, max_blank_streak)
last_data_row_in_span_call ==
    /\ rows_pc = "call"
    /\ last_seen' = last_data_row_in_span(grid, start_row, col_span, max_blank_streak)
    /\ rows_pc' = "returned"
    /\ UNCHANGED <<grid, start_row, col_span, max_blank_streak>>
    /\ UNCHANGED <<merge_vars, file_vars, cols_vars>>

NextRows == last_data_row_in_span_call

SpecRows == InitRows /\ [][NextRows]_vars

(***************************************************************************)
(* Deep values read by the properties                                      *)
(***************************************************************************)
Min(a, b) == IF a <= b THEN a ELSE b

THas(tr, k) == tr.t = "dict" /\ IndexOf(tr.ks, k) /= 0
TGet(tr, k) == tr.vs[IndexOf(tr.ks, k)]

\* the key path resolves through mappings of tr / the subtree it leads to
RECURSIVE TResolves(_, _), TAt(_, _)
TResolves(tr, path) ==
    \/ path = <<>>
    \/ /\ THas(tr, Head(path))
       /\ TResolves(TGet(tr, Head(path)), Tail(path))
TAt(tr, path) ==
    IF path = <<>> THEN tr ELSE TAt(TGet(tr, Head(path)), Tail(path))

\* every non-empty key path of tr that runs through mappings
RECURSIVE DictPaths(_)
DictPaths(tr) ==
    IF tr.t /= "dict" THEN {}
    ELSE UNION {{<<tr.ks[i]>>} \cup {<<tr.ks[i]>> \o q : q \in DictPaths(tr.vs[i])} :
                i \in 1..Len(tr.ks)}

TTruthy(tr) ==
    CASE tr.t = "null" -> FALSE
      [] tr.t = "bool" -> tr.n = 1
      [] tr.t = "int" -> tr.n /= 0
      [] tr.t = "str" -> tr.s /= <<>>
      [] OTHER -> Len(tr.vs) > 0

\* the mapping with the single branch path, ending in leaf
RECURSIVE SingleBranch(_, _)
SingleBranch(path, leaf) ==
    IF Len(path) = 1 THEN TDict(<<path[1]>>, <<leaf>>)
    ELSE TDict(<<path[1]>>, <<SingleBranch(Tail(path), leaf)>>)

InSeq(x, sq) == \E i \in 1..Len(sq) : sq[i] = x
AllLiteral(tokens) == \A i \in 1..Len(tokens) : tokens[i] /= Star

MergedNow == TreeOf(heap, merged)
\* a pattern has just been applied without raising: merged_before is the
\* working copy before it, MergedNow the copy after it
Applied == pc = "loop" /\ idx >= 2
AppliedTokens == split(merge_keys[idx - 1])

(***************************************************************************)
(* Properties                                                              *)
(***************************************************************************)

\* C1: merge_yaml leaves the caller's old tree deep-equal, key order
\* included, to what it was when the call started, at every point of the
\* call and also when the call raises: the merge works on a deep copy.
OldNeverMutated ==
    pc \in {"loop", "returned", "raised"} => TreeOf(heap, old_data) = old_before

\* the merge returned a tree that differs from old, and old is as it was
OldNeverMutatedWitness ==
    /\ pc = "returned"
    /\ MergedNow /= old_before
    /\ TreeOf(heap, old_data) = old_before

\* C2 (as claimed): after merge_yaml, every key path of the old tree that no
\* pattern covers keeps its old value.  A pattern covers a path when its
\* tokens agree with the path on their common length (the path is matched,
\* is a prefix of a match, or lies under a match), the widest reading of
\* "covered".
Covers(tokens, path) ==
    \A i \in 1..Min(Len(tokens), Len(path)) :
        tokens[i] = Star \/ tokens[i] = path[i]
Uncovered(path) ==
    \A j \in 1..Len(merge_keys) : ~Covers(split(merge_keys[j]), path)
UntouchedBranches ==
    pc = "returned" =>
        \A p \in DictPaths(old_before) :
            Uncovered(p) =>
                /\ TResolves(MergedNow, p)
                /\ TAt(MergedNow, p) = TAt(old_before, p)

\* C3 (as claimed): merge_yaml never raises, whatever the shapes of the
\* merged node and the new node met along a pattern.
NeverRaises == pc /= "raised"

\* the tree tr with the keys of every mapping in sorted order
RECURSIVE SortKeys(_)
SortKeys(tr) ==
    IF tr.t = "dict"
    THEN LET ps == SortedPositions(tr.ks, 1..Len(tr.ks))
         IN  [tr EXCEPT !.ks = [i \in 1..Len(ps) |-> tr.ks[ps[i]]],
                        !.vs = [i \in 1..Len(ps) |-> SortKeys(tr.vs[ps[i]])]]
    ELSE IF tr.t = "list"
    THEN [tr EXCEPT !.vs = [i \in 1..Len(tr.vs) |-> SortKeys(tr.vs[i])]]
    ELSE tr

\* a == b for Python values: mappings are equal whatever their key order
PyEq(a, b) == SortKeys(a) = SortKeys(b)

\* C4 (as claimed): merging the result of merge_yaml again with the same new
\* tree and the same patterns returns a tree deep-equal (Python's ==) to the
\* first result, and does not raise.
Idempotent ==
    /\ \A i \in 2..Len(results) : PyEq(results[i], results[i - 1])
    /\ calls >= 2 => pc /= "raised"

\* C5 (as claimed): in the tree merge_yaml returns, the keys of the old
\* mapping come first in their old order, followed by the keys only the new
\* mapping holds, in their new-tree order.
KeyOrder(old_keys, new_keys, result_keys) ==
    result_keys =
        old_keys \o SelectSeq(new_keys,
                              LAMBDA k : ~InSeq(k, old_keys) /\ InSeq(k, result_keys))
ResultKeyOrder ==
    (pc = "returned" /\ old_before.t = "dict" /\ new_before.t = "dict"
        /\ MergedNow.t = "dict")
    => KeyOrder(old_before.ks, new_before.ks, MergedNow.ks)

\* C5 (amended): one application of one pattern orders every mapping it
\* merges as: the keys the merged mapping held before that application, in
\* their order, then the keys it adds from the new mapping, in new-tree order.
RECURSIVE OrderedAlong(_, _, _, _)
OrderedAlong(before, new, after, tokens) ==
    IF tokens = <<>> \/ before.t /= "dict" THEN TRUE
    ELSE IF Head(tokens) /= Star
    THEN /\ after.t = "dict"
         /\ KeyOrder(before.ks, IF new.t = "dict" THEN new.ks ELSE <<>>, after.ks)
         /\ (THas(new, Head(tokens)) /\ THas(before, Head(tokens)) /\ Tail(tokens) /= <<>>)
             => OrderedAlong(TGet(before, Head(tokens)), TGet(new, Head(tokens)),
                             TGet(after, Head(tokens)), Tail(tokens))
    ELSE IF new.t /= "dict" THEN TRUE
    ELSE /\ after.t = "dict"
         /\ KeyOrder(before.ks, new.ks, after.ks)
         /\ \A i \in 1..Len(before.ks) :
                THas(new, before.ks[i]) =>
                    OrderedAlong(before.vs[i], TGet(new, before.ks[i]),
                                 TGet(after, before.ks[i]), Tail(tokens))
PatternKeyOrder ==
    Applied => OrderedAlong(merged_before, new_before, MergedNow, AppliedTokens)

\* a pattern added two keys of new behind a key the merged mapping held
PatternKeyOrderWitness ==
    /\ Applied
    /\ merged_before.t = "dict" /\ MergedNow.t = "dict"
    /\ Len(merged_before.ks) >= 1
    /\ Len(MergedNow.ks) >= Len(merged_before.ks) + 2

\* C6: when the last pattern of the list is a literal path that resolves
\* through mappings of the new tree, the tree merge_yaml returns holds the new
\* tree's value at that path, whatever the earlier patterns wrote there.
LastTokens == split(merge_keys[Len(merge_keys)])
LastPatternWins ==
    (pc = "returned" /\ AllLiteral(LastTokens) /\ TResolves(new_before, LastTokens))
    => /\ TResolves(MergedNow, LastTokens)
       /\ TAt(MergedNow, LastTokens) = TAt(new_before, LastTokens)

\* an earlier pattern wrote at the path a value that is neither old's nor
\* new's, and the last pattern replaced it
LastPatternWinsWitness ==
    /\ pc = "returned" /\ calls = 1 /\ Len(merge_keys) >= 2
    /\ AllLiteral(LastTokens) /\ TResolves(new_before, LastTokens)
    /\ TResolves(merged_before, LastTokens)
    /\ TAt(merged_before, LastTokens) /= TAt(new_before, LastTokens)
    /\ ~(TResolves(old_before, LastTokens)
            /\ TAt(old_before, LastTokens) = TAt(merged_before, LastTokens))
    /\ TAt(MergedNow, LastTokens) = TAt(new_before, LastTokens)

\* C7: a literal path applied where the merged tree and the new tree are
\* mappings along it, the new tree holding its last key: the value at the
\* path becomes new's subtree and every sibling key along the path keeps the
\* value it had.
MappingsAlong(tr, path) ==
    \A i \in 0..(Len(path) - 1) :
        /\ TResolves(tr, SubSeq(path, 1, i))
        /\ TAt(tr, SubSeq(path, 1, i)).t = "dict"
LiteralCase ==
    /\ AllLiteral(AppliedTokens)
    /\ MappingsAlong(merged_before, AppliedTokens)
    /\ TResolves(new_before, AppliedTokens)
SiblingsKept(before, after, path) ==
    \A i \in 1..Len(path) :
        LET prefix == SubSeq(path, 1, i - 1)
            node == TAt(before, prefix)
        IN  \A j \in 1..Len(node.ks) :
                node.ks[j] /= path[i] =>
                    /\ TResolves(after, Append(prefix, node.ks[j]))
                    /\ TAt(after, Append(prefix, node.ks[j])) = node.vs[j]
TerminalLiteralReplace ==
    (pc \in {"loop", "raised"} /\ idx >= 2 /\ LiteralCase)
    => /\ pc = "loop"
       /\ TResolves(MergedNow, AppliedTokens)
       /\ TAt(MergedNow, AppliedTokens) = TAt(new_before, AppliedTokens)
       /\ SiblingsKept(merged_before, MergedNow, AppliedTokens)

\* a two-token literal path replaced a value that differed from new's, next
\* to a sibling key
TerminalLiteralReplaceWitness ==
    /\ Applied /\ LiteralCase
    /\ Len(AppliedTokens) = 2
    /\ TResolves(merged_before, AppliedTokens)
    /\ TAt(merged_before, AppliedTokens) /= TAt(new_before, AppliedTokens)
    /\ Len(TAt(merged_before, <<AppliedTokens[1]>>).ks) >= 2
    /\ Len(merged_before.ks) >= 2

\* C8: a literal token whose key the new mapping does not hold: merge_pattern
\* returns the merged mapping as it was, same keys, values and order, whatever
\* the remaining tokens, at the root and at each mapping a literal descent
\* reaches.
RECURSIVE AbsentLeavesUnchanged(_, _, _, _)
AbsentLeavesUnchanged(before, new, after, tokens) ==
    IF tokens = <<>> \/ Head(tokens) = Star \/ before.t /= "dict" \/ new.t /= "dict"
    THEN TRUE
    ELSE IF ~THas(new, Head(tokens)) THEN after = before
    ELSE (Tail(tokens) /= <<>> /\ THas(before, Head(tokens)) /\ THas(after, Head(tokens)))
         => AbsentLeavesUnchanged(TGet(before, Head(tokens)), TGet(new, Head(tokens)),
                                  TGet(after, Head(tokens)), Tail(tokens))
RECURSIVE AbsentCase(_, _, _)
AbsentCase(before, new, tokens) ==
    /\ tokens /= <<>> /\ Head(tokens) /= Star
    /\ before.t = "dict" /\ new.t = "dict"
    /\ \/ ~THas(new, Head(tokens))
       \/ /\ THas(before, Head(tokens))
          /\ AbsentCase(TGet(before, Head(tokens)), TGet(new, Head(tokens)), Tail(tokens))
AbsentKeyUnchanged ==
    (pc \in {"loop", "raised"} /\ idx >= 2
        /\ AbsentCase(merged_before, new_before, AppliedTokens))
    => /\ pc = "loop"
       /\ AbsentLeavesUnchanged(merged_before, new_before, MergedNow, AppliedTokens)

\* the root held the absent key, with tokens remaining, and kept it
AbsentKeyUnchangedWitness ==
    /\ Applied
    /\ Len(AppliedTokens) >= 2 /\ AppliedTokens[1] /= Star
    /\ merged_before.t = "dict" /\ new_before.t = "dict"
    /\ ~THas(new_before, AppliedTokens[1])
    /\ THas(merged_before, AppliedTokens[1])
    /\ MergedNow = merged_before

\* C9 (as claimed): wildcard over two mappings, for a key only new holds:
\* without remaining tokens the result holds new's value for the key; with
\* remaining tokens whose path resolves inside new[key] to a non-falsy value,
\* the result holds for the key the single-branch mapping of that path.
WildcardCase ==
    /\ Applied
    /\ AppliedTokens[1] = Star
    /\ merged_before.t = "dict" /\ new_before.t = "dict"
NewOnlyKeys ==
    {i \in 1..Len(new_before.ks) : ~THas(merged_before, new_before.ks[i])}
NewOnlyKeyAdopted ==
    WildcardCase =>
        \A i \in NewOnlyKeys :
            LET key == new_before.ks[i]
                rest == Tail(AppliedTokens)
            IN  IF rest = <<>>
                THEN THas(MergedNow, key) /\ TGet(MergedNow, key) = new_before.vs[i]
                ELSE (TResolves(new_before.vs[i], rest)
                        /\ TTruthy(TAt(new_before.vs[i], rest)))
                     => /\ THas(MergedNow, key)
                        /\ TGet(MergedNow, key)
                             = SingleBranch(rest, TAt(new_before.vs[i], rest))

\* C10 (as claimed): wildcard over two mappings, for a key only new holds and
\* with remaining tokens: when the remaining path does not resolve inside
\* new[key], or resolves to a falsy value, the result does not hold the key.
NewOnlyKeyDropped ==
    WildcardCase =>
        \A i \in NewOnlyKeys :
            LET key == new_before.ks[i]
                rest == Tail(AppliedTokens)
            IN  (rest /= <<>>
                    /\ ~(TResolves(new_before.vs[i], rest)
                            /\ TTruthy(TAt(new_before.vs[i], rest))))
                => ~THas(MergedNow, key)

\* the deep value merge_pattern returns for the nodes b and n
MergeTree(b, n, tokens) ==
    LET ab == Alloc(<<>>, b)
        an == Alloc(ab.h, n)
        m == merge_pattern(an.h, ab.r, an.r, tokens)
    IN  TreeOf(m.h, m.r)

\* where tokens lead, through keys both sides hold, to a wildcard over two
\* sequences b and n, the result r is their positional merge
RECURSIVE SeqMerged(_, _, _, _)
SeqMerged(b, n, r, tokens) ==
    IF tokens = <<>> THEN TRUE
    ELSE IF Head(tokens) = Star
    THEN (b.t = "list" /\ n.t = "list") =>
         /\ r.t = "list"
         /\ Len(r.vs) = IF Len(b.vs) >= Len(n.vs) THEN Len(b.vs) ELSE Len(n.vs)
         /\ \A i \in 1..Len(r.vs) :
                r.vs[i] = IF i <= Len(b.vs) /\ i <= Len(n.vs)
                          THEN IF Tail(tokens) = <<>> THEN n.vs[i]
                               ELSE MergeTree(b.vs[i], n.vs[i], Tail(tokens))
                          ELSE IF i <= Len(b.vs) THEN b.vs[i] ELSE n.vs[i]
    ELSE (THas(b, Head(tokens)) /\ THas(n, Head(tokens)) /\ THas(r, Head(tokens))) =>
         SeqMerged(TGet(b, Head(tokens)), TGet(n, Head(tokens)),
                   TGet(r, Head(tokens)), Tail(tokens))

\* C11: a wildcard over two sequences merges them by position: the result
\* is as long as the longer one; at an index both hold, the element is the
\* merge of the two elements with the remaining tokens (new's element when
\* none remain); at an index one side holds, it is that side's element.
PositionalMerge ==
    Applied => SeqMerged(merged_before, new_before, MergedNow, AppliedTokens)

\* old [1,2,3] merged with new [9,9] under "*" gave [9,9,3]
PositionalMergeWitness ==
    /\ Applied
    /\ AppliedTokens = <<Star>>
    /\ merged_before = TList(<<TInt(1), TInt(2), TInt(3)>>)
    /\ new_before = TList(<<TInt(9), TInt(9)>>)
    /\ MergedNow = TList(<<TInt(9), TInt(9), TInt(3)>>)

\* the descent along literal tokens, through keys both sides hold, meets a
\* merged node b that is not a mapping
RECURSIVE LiteralMeetsNonMapping(_, _, _)
LiteralMeetsNonMapping(b, n, tokens) ==
    /\ tokens /= <<>>
    /\ Head(tokens) /= Star
    /\ \/ b.t /= "dict"
       \/ /\ Tail(tokens) /= <<>>
          /\ THas(b, Head(tokens))
          /\ THas(n, Head(tokens))
          /\ LiteralMeetsNonMapping(TGet(b, Head(tokens)), TGet(n, Head(tokens)),
                                    Tail(tokens))

\* wherever the descent (literal keys both sides hold, wildcards over two
\* mappings or two sequences) meets a literal token at a merged node b that
\* is not a mapping, the result r is the new node n
RECURSIVE NonMappingGivesNew(_, _, _, _)
NonMappingGivesNew(b, n, r, tokens) ==
    IF tokens = <<>> THEN TRUE
    ELSE IF Head(tokens) /= Star
    THEN IF b.t /= "dict" THEN r = n
         ELSE (THas(b, Head(tokens)) /\ THas(n, Head(tokens))
               /\ THas(r, Head(tokens))) =>
              NonMappingGivesNew(TGet(b, Head(tokens)), TGet(n, Head(tokens)),
                                 TGet(r, Head(tokens)), Tail(tokens))
    ELSE IF b.t = "dict" /\ n.t = "dict"
    THEN \A k \in {b.ks[i] : i \in 1..Len(b.ks)} :
            (THas(n, k) /\ THas(r, k)) =>
            NonMappingGivesNew(TGet(b, k), TGet(n, k), TGet(r, k), Tail(tokens))
    ELSE IF b.t = "list" /\ n.t = "list" /\ r.t = "list"
    THEN \A i \in 1..Len(r.vs) :
            (i <= Len(b.vs) /\ i <= Len(n.vs)) =>
            NonMappingGivesNew(b.vs[i], n.vs[i], r.vs[i], Tail(tokens))
    ELSE TRUE

\* C12: a literal token met while the merged node is a sequence or a scalar,
\* at the root or deeper, makes merge_pattern return the new node as it is
\* (at the root the very object new_data), whatever new is, and the pattern
\* does not raise.
NonMappingReturnsNew ==
    /\ (/\ idx >= 2
        /\ pc \in {"loop", "raised"}
        /\ LiteralMeetsNonMapping(merged_before, new_before, AppliedTokens))
       => pc = "loop"
    /\ (Applied /\ AppliedTokens[1] /= Star /\ merged_before.t /= "dict")
       => merged = new_data
    /\ Applied =>
       NonMappingGivesNew(merged_before, new_before, MergedNow, AppliedTokens)

\* "a.b" met a sequence or a scalar under "a" while new holds null there:
\* the result holds null under "a"
NonMappingReturnsNewWitness ==
    /\ Applied
    /\ AppliedTokens = <<A, B>>
    /\ THas(merged_before, A)
    /\ TGet(merged_before, A).t \in {"list", "int"}
    /\ THas(new_before, A)
    /\ TGet(new_before, A) = TNone
    /\ TGet(MergedNow, A) = TNone

\* b and n are neither both mappings nor both sequences
Mismatched(b, n) ==
    /\ ~(b.t = "dict" /\ n.t = "dict")
    /\ ~(b.t = "list" /\ n.t = "list")

\* wherever the descent (literal keys both sides hold, wildcards over two
\* mappings or two sequences) meets a wildcard at mismatched nodes b and n,
\* the result r is the new node n
RECURSIVE MismatchGivesNew(_, _, _, _)
MismatchGivesNew(b, n, r, tokens) ==
    IF tokens = <<>> THEN TRUE
    ELSE IF Head(tokens) /= Star
    THEN (THas(b, Head(tokens)) /\ THas(n, Head(tokens))
          /\ THas(r, Head(tokens))) =>
         MismatchGivesNew(TGet(b, Head(tokens)), TGet(n, Head(tokens)),
                          TGet(r, Head(tokens)), Tail(tokens))
    ELSE IF b.t = "dict" /\ n.t = "dict"
    THEN \A k \in {b.ks[i] : i \in 1..Len(b.ks)} :
            (THas(n, k) /\ THas(r, k)) =>
            MismatchGivesNew(TGet(b, k), TGet(n, k), TGet(r, k), Tail(tokens))
    ELSE IF b.t = "list" /\ n.t = "list"
    THEN r.t = "list" =>
         \A i \in 1..Len(r.vs) :
            (i <= Len(b.vs) /\ i <= Len(n.vs)) =>
            MismatchGivesNew(b.vs[i], n.vs[i], r.vs[i], Tail(tokens))
    ELSE r = n

\* C13: a wildcard met while the merged node and the new node are neither
\* both mappings nor both sequences makes merge_pattern return the new node
\* whole (at the root the very object new_data), whatever tokens remain,
\* and the pattern does not raise.
MismatchReturnsNew ==
    /\ (/\ idx >= 2
        /\ pc \in {"loop", "raised"}
        /\ AppliedTokens[1] = Star
        /\ Mismatched(merged_before, new_before))
       => (pc = "loop" /\ merged = new_data)
    /\ Applied =>
       MismatchGivesNew(merged_before, new_before, MergedNow, AppliedTokens)

\* "a.*.b" met a sequence in merged and a mapping in new under "a": the
\* result holds new's mapping under "a", the token "b" was not applied
MismatchReturnsNewWitness ==
    /\ Applied
    /\ AppliedTokens = <<A, Star, B>>
    /\ THas(merged_before, A)
    /\ TGet(merged_before, A).t = "list"
    /\ THas(new_before, A)
    /\ TGet(new_before, A).t = "dict"
    /\ TGet(MergedNow, A) = TGet(new_before, A)

\* wherever the descent (literal keys both sides hold, wildcards over two
\* mappings or two sequences) meets a wildcard over two mappings b and n,
\* the result r holds every key of b, and every key n lacks with b's value
RECURSIVE MergedOnlyKept(_, _, _, _)
MergedOnlyKept(b, n, r, tokens) ==
    IF tokens = <<>> THEN TRUE
    ELSE IF Head(tokens) /= Star
    THEN (THas(b, Head(tokens)) /\ THas(n, Head(tokens))
          /\ THas(r, Head(tokens))) =>
         MergedOnlyKept(TGet(b, Head(tokens)), TGet(n, Head(tokens)),
                        TGet(r, Head(tokens)), Tail(tokens))
    ELSE IF b.t = "dict" /\ n.t = "dict"
    THEN /\ r.t = "dict"
         /\ \A k \in {b.ks[i] : i \in 1..Len(b.ks)} :
                /\ THas(r, k)
                /\ IF THas(n, k)
                   THEN MergedOnlyKept(TGet(b, k), TGet(n, k), TGet(r, k),
                                       Tail(tokens))
                   ELSE TGet(r, k) = TGet(b, k)
    ELSE IF b.t = "list" /\ n.t = "list"
    THEN r.t = "list" =>
         \A i \in 1..Len(r.vs) :
            (i <= Len(b.vs) /\ i <= Len(n.vs)) =>
            MergedOnlyKept(b.vs[i], n.vs[i], r.vs[i], Tail(tokens))
    ELSE TRUE

\* C17: a wildcard over two mappings keeps every key that only the merged
\* mapping holds, with its value unchanged: the result holds every key of
\* the merged mapping, a key the new tree lacks is not deleted.
MergedOnlyKeysKept ==
    Applied => MergedOnlyKept(merged_before, new_before, MergedNow, AppliedTokens)

\* a wildcard pattern changed the document, and the key "b" that only the
\* merged mapping held is in the result with the value it had
MergedOnlyKeysKeptWitness ==
    /\ Applied
    /\ AppliedTokens[1] = Star
    /\ THas(merged_before, B)
    /\ new_before.t = "dict"
    /\ ~THas(new_before, B)
    /\ THas(MergedNow, B)
    /\ TGet(MergedNow, B) = TGet(merged_before, B)
    /\ MergedNow /= merged_before

\* C19 (as claimed): merge_yaml leaves the new tree deep-equal to what it
\* was when the call started, at every point of the call, although the
\* result shares subtrees with new and later patterns write into them.
NewNeverMutated ==
    pc \in {"loop", "returned", "raised"} => TreeOf(heap, new_data) = new_before

\* the number of container levels of tr: 0 for a scalar or null
RECURSIVE Height(_)
Height(tr) ==
    IF tr.t \notin {"dict", "list"} THEN 0
    ELSE IF tr.vs = <<>> THEN 1
    ELSE 1 + (CHOOSE m \in {Height(tr.vs[i]) : i \in 1..Len(tr.vs)} :
                \A i \in 1..Len(tr.vs) : Height(tr.vs[i]) <= m)

\* the merge_pattern calls nested inside the call made for a pattern are at
\* most as many as its tokens, and at most as many as new has levels
DepthBounded ==
    (idx >= 2 /\ pc \in {"loop", "raised"}) =>
        /\ depth <= Len(AppliedTokens)
        /\ depth <= Height(new_before)

\* C18: merge_pattern and merge_yaml terminate: the calls of merge_pattern
\* nest at most as deep as the pattern has tokens (each recursive call gets
\* one token fewer) and as the new tree has levels, and every call of
\* merge_yaml that has started returns or raises.
MergeTerminates ==
    /\ []DepthBounded
    /\ (pc = "call") ~> (pc \in {"returned", "raised"})

\* a call over two patterns returned, the last one "*.b.a" with calls of
\* merge_pattern nested two deep
MergeTerminatesWitness ==
    /\ pc = "returned"
    /\ Len(merge_keys) >= 2
    /\ split(merge_keys[Len(merge_keys)]) = <<Star, B, A>>
    /\ depth = 2

\* the deep value merge_yaml returns for the file content o and the text n
MergeYamlTree(o, n, keys) ==
    LET an == safe_load(<<>>, Doc(n))
        ao == safe_load(an.h, o)
        m == merge_yaml(ao.h, ao.r, an.r, keys)
    IN  TreeOf(m.h, m.r)

\* C16: after a call of write_yaml_to_file that returned, the file exists
\* and holds the value returned; that value is the new document when the
\* file did not exist before the call, and merge_yaml(content before, new
\* document) when it did.  A call that raised wrote nothing.  (Equality is
\* Python's ==: the text has the keys of each mapping sorted.)
FileHoldsResult ==
    /\ wpc = "returned" =>
          /\ file.exists
          /\ PyEq(DocTree(file.data), returned)
          /\ IF file_before.exists
             THEN PyEq(DocTree(file.data),
                       MergeYamlTree(file_before.data, new_doc, merge_keys))
             ELSE PyEq(DocTree(file.data), new_doc)
    /\ wpc = "raised" => file = file_before

\* the second call found the file of the first call and merged into it:
\* the file holds neither what it held before nor the new document
FileHoldsResultWitness ==
    /\ wpc = "returned"
    /\ writes = 2
    /\ file_before.exists
    /\ ~PyEq(DocTree(file.data), DocTree(file_before.data))
    /\ ~PyEq(DocTree(file.data), new_doc)
    /\ PyEq(DocTree(file.data), returned)

\* C14 (as claimed): the names build_flat_columns returns are pairwise
\* distinct, for every input of header rows, also when a header holds the
\* text "a (2)" next to two columns named "a".
ColumnsDistinct ==
    cols_pc = "returned" =>
        \A i, j \in 1..Len(unique_cols) : i /= j => unique_cols[i] /= unique_cols[j]

\* C15 (as claimed): the row last_data_row_in_span returns holds a non-None
\* cell in the column span, also when the row at start_row is blank.
ReturnedRowHasData ==
    rows_pc = "returned" =>
        /\ last_seen \in 1..Len(grid)
        /\ has_data(grid[last_seen], col_span[1], col_span[2])

====
